---- MODULE Spec2Model ----
(***************************************************************************)
(* A model of the angle utilities, of the orbit camera and of the load     *)
(* callback of site3d.js.                                                  *)
(*                                                                         *)
(* Numbers.  Degrees are integers.  Radians are fixed-point integers in    *)
(* units of 1/7 rad, and Math.PI is the grid value 22 (22/7 rad), so that  *)
(* 3.0 rad is the integer 21 and a full turn is 44.  On this grid the      *)
(* comparisons with Math.PI and with site3d.TwoPI and the remainder by a   *)
(* full turn are computed exactly as the code computes them.  Orbit steps  *)
(* take multiples of 90 degrees, for which toRad, Math.cos and Math.sin    *)
(* are exact on the grid.                                                  *)
(***************************************************************************)
EXTENDS Integers, Sequences, FiniteSets, TLC

VARIABLES
  call,                  \* the last call of a static angle utility, with its result
  cameraPosition,        \* this._camera.position
  cameraRotateOptions,   \* this._cameraRotateOptions
  cameraAim,             \* orientation of this._camera (its quaternion), see LookAt
  lastOp,                \* the last camera method called, the options object it
                         \* was given, and whether it called lookAt
  run,                   \* the single-angle orbit steps taken in a row
  loadInfo,              \* this._loadInfo: countModel, countModelPreload, countModelLoaded
  models,                \* the models constructed so far, in the order of construction
  report,                \* the argument of the last call of the load callback
  preloadMark            \* how many models had been constructed at the last preload()

vars == <<call, cameraPosition, cameraRotateOptions, cameraAim, lastOp, run,
          loadInfo, models, report, preloadMark>>

cameraVars == <<cameraPosition, cameraRotateOptions, cameraAim, lastOp, run>>

loadVars == <<loadInfo, models, report, preloadMark>>

----------------------------------------------------------------------------
(* Bounds of the model *)

\* single angles given to the utilities range over so many full turns either way
MaxTurns == 3

\* pairs of angles given to minRotationAngle range over so many full turns
MaxPairTurns == 2

----------------------------------------------------------------------------
(* Static angle utilities, site3d.js lines 5-31 *)

\* Math.PI on the fixed-point grid (22/7 rad in units of 1/7 rad)
PI == 22

\* static TwoPI = 2 * Math.PI
TwoPI == 2 * PI

\* Math.abs
Abs(x) == IF x < 0 THEN -x ELSE x

\* the % operator of JavaScript for a positive divisor: the remainder of the
\* truncated division, which takes the sign of the dividend
Rem(a, m) == IF a >= 0 THEN a % m ELSE -((-a) % m)

\* a plausible slip in normalizeRad: one full turn is taken off instead of
\* the remainder being taken
normalizeRadOneTurn(angle) ==
  IF Abs(angle) = TwoPI THEN angle
  ELSE IF angle > TwoPI THEN angle - TwoPI
  ELSE IF angle < -TwoPI THEN angle + TwoPI
  ELSE angle

\* a plausible slip in normalizeRad: the test for a full turn is left out
normalizeRadNoPass(angle) == Rem(angle, TwoPI)

\* a plausible slip in normalizeRad: the remainder is made non-negative
normalizeRadFloor(angle) ==
  IF Abs(angle) = TwoPI THEN angle ELSE angle % TwoPI

\* normalizeRad = (angle) => Math.abs(angle) == TwoPI ? angle : angle % TwoPI
normalizeRad(angle) ==
  IF Abs(angle) = TwoPI THEN angle ELSE Rem(angle, TwoPI)

\* a plausible slip in minRotationAngle: >= for >
minRotationAngleGeq(start, end) ==
  IF Abs(start - end) >= PI
    THEN end + (IF start > 0 THEN TwoPI ELSE -TwoPI)
    ELSE end

\* minRotationAngle = (start, end) =>
\*   {if (Math.abs(start - end) > Math.PI) end += (start > 0 ? TwoPI : -TwoPI); return end;}
minRotationAngle(start, end) ==
  IF Abs(start - end) > PI
    THEN end + (IF start > 0 THEN TwoPI ELSE -TwoPI)
    ELSE end

\* normalizeDeg = (angle) => Math.abs(angle) == 360 ? angle : angle % 360
normalizeDeg(angle) ==
  IF Abs(angle) = 360 THEN angle ELSE Rem(angle, 360)

\* toRad = (angle) => normalizeDeg(angle) * (Math.PI / 180)
\* (exact on the grid for the multiples of 90 degrees)
toRad(angle) == (normalizeDeg(angle) * PI) \div 180

\* _minRotation = (startRotation, endRotation) => {endRotation.x = ...; .y = ...; .z = ...}
\* The value is endRotation as the call leaves it.
minRotation(startRotation, endRotation) ==
  [x |-> minRotationAngle(startRotation.x, endRotation.x),
   y |-> minRotationAngle(startRotation.y, endRotation.y),
   z |-> minRotationAngle(startRotation.z, endRotation.z)]

----------------------------------------------------------------------------
(* The models and the load callback, site3d.js lines 81, 99-114, 355-370,   *)
(* 417-430 and 587-614.  The instance is constructed with a load callback.   *)

\* models constructed in one behaviour
MaxModels == 4

\* constructor: _loadInfo = {countModel: 0, countModelPreload: 0, countModelLoaded: 0, load}
\* and _models = new Map(); the load callback has not been called
LoadInit ==
  /\ loadInfo = [countModel |-> 0, countModelPreload |-> 0, countModelLoaded |-> 0]
  /\ models = << >>
  /\ report = [called |-> FALSE, countModel |-> 0, countModelLoaded |-> 0,
               countModelPreload |-> 0, is_preload_completed |-> FALSE]
  /\ preloadMark = 0

\* _callLoad(): the object the load callback is called with, _loadInfo being li
callLoad(li) ==
  [called |-> TRUE,
   countModel |-> li.countModel,
   countModelLoaded |-> li.countModelLoaded,
   countModelPreload |-> li.countModelPreload,
   is_preload_completed |->
     li.countModelPreload # 0 /\ li.countModelPreload = li.countModelLoaded]

\* _addModel(model): countModelLoaded++, then _callLoad(); the value is
\* _loadInfo after it (the callback is called with that value)
addModel(li) == [li EXCEPT !.countModelLoaded = @ + 1]

\* plane, circle, cube, sphere, hemisphere, octahedron: the constructor of
\* site3dModel with a geometry sets OBJECT to the mesh, calls _addModel and
\* only then counts the model in countModel
primitive ==
  /\ Len(models) < MaxModels
  /\ models' = Append(models, [text |-> FALSE, OBJECT |-> "mesh"])
  /\ report' = callLoad(addModel(loadInfo))
  /\ loadInfo' = [addModel(loadInfo) EXCEPT !.countModel = @ + 1]
  /\ UNCHANGED <<call, cameraVars, preloadMark>>

\* text: the constructor of site3dModel without params leaves OBJECT null and
\* counts the model in countModel; the font is then loaded asynchronously
text ==
  /\ Len(models) < MaxModels
  /\ models' = Append(models, [text |-> TRUE, OBJECT |-> "null"])
  /\ loadInfo' = [loadInfo EXCEPT !.countModel = @ + 1]
  /\ UNCHANGED <<call, cameraVars, report, preloadMark>>

\* the completion of the font of the text model i, lines 594-613: OBJECT is
\* set to the mesh and _addModel is called
fontLoaded(i) ==
  /\ models[i].text /\ models[i].OBJECT = "null"
  /\ models' = [models EXCEPT ![i].OBJECT = "mesh"]
  /\ loadInfo' = addModel(loadInfo)
  /\ report' = callLoad(addModel(loadInfo))
  /\ UNCHANGED <<call, cameraVars, preloadMark>>

\* preload(): countModelPreload = countModel, then _callLoad()
preload ==
  /\ loadInfo' = [loadInfo EXCEPT !.countModelPreload = loadInfo.countModel]
  /\ report' = callLoad([loadInfo EXCEPT !.countModelPreload = loadInfo.countModel])
  /\ preloadMark' = Len(models)
  /\ UNCHANGED <<call, cameraVars, models>>

LoadNext ==
  \/ primitive
  \/ text
  \/ \E i \in 1..Len(models) : fontLoaded(i)
  \/ preload

----------------------------------------------------------------------------
(* The camera, site3d.js lines 80-85, 139-145 and 194-233 *)

Vec(x, y, z) == [x |-> x, y |-> y, z |-> z]

\* positions are kept within this distance of the origin on every axis
MaxCoord == 5

\* orbit steps recorded in one run
MaxRun == 4

\* positions given to cameraPos
PosInputs == {Vec(0, 0, 5), Vec(2, 3, 1)}

\* orbit targets given in the options of rotateCamera, and points given to
\* its array form
Targets == {Vec(0, 0, 0), Vec(4, 2, 4)}

\* angles (degrees) given to the orbit form of rotateCamera
OrbitAngles == {-90, 90}

\* An optional field of an options object is a sequence: << >> when the
\* field is undefined, <<v>> when it is v.  given is FALSE when the options
\* object itself is undefined.
NoOptions == [given |-> FALSE, pos |-> << >>, axe |-> << >>, isLook |-> << >>]

OptionInputs ==
  {NoOptions} \cup
  [given : {TRUE},
   pos : {<< >>} \cup {<<t>> : t \in Targets},
   axe : {<< >>, <<"x">>, <<"y">>, <<"z">>},
   isLook : {<< >>, <<TRUE>>, <<FALSE>>}]

\* Math.cos and Math.sin on the fixed-point grid, at the quarter turns
Cos(a) ==
  CASE a % TwoPI = 0 -> 1
    [] a % TwoPI = PI \div 2 -> 0
    [] a % TwoPI = PI -> -1
    [] a % TwoPI = PI + PI \div 2 -> 0

Sin(a) ==
  CASE a % TwoPI = 0 -> 0
    [] a % TwoPI = PI \div 2 -> 1
    [] a % TwoPI = PI -> 0
    [] a % TwoPI = PI + PI \div 2 -> -1

\* The orientation of the camera.  Object3D.lookAt sets the quaternion from
\* the position of the camera and the point looked at alone: the orientation
\* is the last aim, from eye at the point at.  aimed is FALSE while the camera
\* has the orientation it was constructed with.  (The three-angle form of
\* rotateCamera, lines 196-201, which turns the camera about its local axes,
\* is not among the calls made here.)
NoAim == [aimed |-> FALSE, eye |-> Vec(0, 0, 0), at |-> Vec(0, 0, 0)]

\* this._camera.lookAt(target), called with the camera at position eye
LookAt(eye, target) == [aimed |-> TRUE, eye |-> eye, at |-> target]

\* no single-angle orbit step has been taken since the last call of another
\* kind
NoRun(pos) == [start |-> pos, len |-> 0, last |-> 0, all90 |-> FALSE, undone |-> FALSE]

InBox(p) == Abs(p.x) <= MaxCoord /\ Abs(p.y) <= MaxCoord /\ Abs(p.z) <= MaxCoord

\* constructor: _cameraRotateOptions = {target: (0,0,0), axe: 'y', isLook: true},
\* then this.camera({..., pos: [0, 0, 1]})
CameraInit ==
  /\ cameraPosition = Vec(0, 0, 1)
  /\ cameraRotateOptions = [target |-> Vec(0, 0, 0), axe |-> "y", isLook |-> TRUE]
  /\ cameraAim = NoAim
  /\ lastOp = [op |-> "constructor", opts |-> NoOptions, looked |-> FALSE]
  /\ run = NoRun(Vec(0, 0, 1))

Init ==
  /\ call = [fn |-> "none", args |-> << >>, ret |-> << >>]
  /\ CameraInit
  /\ LoadInit

\* cameraPos(p1): this._camera.position.set(p1[0], p1[1], p1[2])
cameraPos(p1) ==
  /\ cameraPosition' = p1
  /\ lastOp' = [op |-> "cameraPos", opts |-> NoOptions, looked |-> FALSE]
  /\ run' = NoRun(p1)
  /\ UNCHANGED <<call, cameraRotateOptions, cameraAim, loadVars>>

\* rotateCamera(p1) with p1 an array: this._camera.lookAt(new Vector3(p1[0], p1[1], p1[2]))
rotateCameraTo(p1) ==
  /\ cameraAim' = LookAt(cameraPosition, p1)
  /\ lastOp' = [op |-> "rotateCameraTo", opts |-> NoOptions, looked |-> TRUE]
  /\ run' = NoRun(cameraPosition)
  /\ UNCHANGED <<call, cameraPosition, cameraRotateOptions, loadVars>>

\* a plausible slip in the options: a field that is not given falls back to
\* its default
ApplyOptionsDefaults(o, p2) ==
  IF p2.given
    THEN [target |-> IF p2.pos # << >> THEN p2.pos[1] ELSE Vec(0, 0, 0),
          axe |-> IF p2.axe # << >> THEN p2.axe[1] ELSE "y",
          isLook |-> IF p2.isLook # << >> THEN p2.isLook[1] ELSE TRUE]
    ELSE o

\* lines 210-218: the fields of p2 that are defined replace those of
\* this._cameraRotateOptions
ApplyOptions(o, p2) ==
  [target |-> IF p2.given /\ p2.pos # << >> THEN p2.pos[1] ELSE o.target,
   axe |-> IF p2.given /\ p2.axe # << >> THEN p2.axe[1] ELSE o.axe,
   isLook |-> IF p2.given /\ p2.isLook # << >> THEN p2.isLook[1] ELSE o.isLook]

\* the rotation of lines 222-227
Rotated(pos, o, p1, sx, sz) ==
  LET angle == toRad(p1)
      x0 == o.target.x
      z0 == o.target.z
      x1 == x0 + (pos.x - x0) * Cos(angle) + sx * (pos.z - z0) * Sin(angle)
      z1 == z0 + (pos.z - z0) * Cos(angle) + sz * (pos.x - x0) * Sin(angle)
  IN  [pos EXCEPT !.x = x1, !.z = z1]

\* a plausible slip in the orbit step: the rotation turns the other way
OrbitPositionOtherWay(pos, o, p1) ==
  IF o.axe = "y" THEN Rotated(pos, o, p1, 1, -1) ELSE pos

\* a plausible slip in the orbit step: a sign is wrong in z1
OrbitPositionMirror(pos, o, p1) ==
  IF o.axe = "y" THEN Rotated(pos, o, p1, -1, -1) ELSE pos

\* a plausible slip in the orbit step: the axis is not tested
OrbitPositionAnyAxis(pos, o, p1) == Rotated(pos, o, p1, -1, 1)

\* lines 219-228: the position after the step, with the options o in force
OrbitPosition(pos, o, p1) ==
  IF o.axe = "y"
    THEN LET angle == toRad(p1)
             x0 == o.target.x
             z0 == o.target.z
             x1 == x0 + (pos.x - x0) * Cos(angle) - (pos.z - z0) * Sin(angle)
             z1 == z0 + (pos.z - z0) * Cos(angle) + (pos.x - x0) * Sin(angle)
         IN  [pos EXCEPT !.x = x1, !.z = z1]
    ELSE pos

\* lines 229-230: if (isLook) this._camera.lookAt(target), the camera being
\* at pos
OrbitAim(aim, pos, o) == IF o.isLook THEN LookAt(pos, o.target) ELSE aim

\* The run of single-angle orbit steps, rotateCamera(p1) with no options
\* object, about the y axis, after the step by p1 degrees from pos under the
\* options o: no such step changes the target or the axis.  start: the
\* position before the first step; last: the angle of the latest step;
\* all90: every step was by 90; undone: the run is a step and then the step
\* by the opposite angle.
NextRun(r, pos, o, p1, p2, newPos) ==
  IF p2.given \/ o.axe # "y" THEN NoRun(newPos)
  ELSE IF r.len = 0 \/ r.len >= MaxRun
    THEN [start |-> pos, len |-> 1, last |-> p1, all90 |-> p1 = 90,
          undone |-> FALSE]
    ELSE [start |-> r.start, len |-> r.len + 1, last |-> p1,
          all90 |-> r.all90 /\ p1 = 90, undone |-> r.len = 1 /\ p1 = -r.last]

\* a plausible slip in the orbit step: lookAt is called before the position
\* is updated
rotateCameraLookFirst(p1, p2) ==
  LET o == ApplyOptions(cameraRotateOptions, p2)
      newPos == OrbitPosition(cameraPosition, o, p1)
  IN  /\ InBox(newPos)
      /\ cameraRotateOptions' = o
      /\ cameraPosition' = newPos
      /\ cameraAim' = OrbitAim(cameraAim, cameraPosition, o)
      /\ lastOp' = [op |-> "rotateCamera", opts |-> p2, looked |-> o.isLook]
      /\ run' = NextRun(run, cameraPosition, o, p1, p2, newPos)
      /\ UNCHANGED <<call, loadVars>>

\* rotateCamera(p1, p2) with p1 a number: the orbit step, lines 208-231
rotateCamera(p1, p2) ==
  LET o == ApplyOptions(cameraRotateOptions, p2)
      newPos == OrbitPosition(cameraPosition, o, p1)
  IN  /\ InBox(newPos)
      /\ cameraRotateOptions' = o
      /\ cameraPosition' = newPos
      /\ cameraAim' = OrbitAim(cameraAim, newPos, o)
      /\ lastOp' = [op |-> "rotateCamera", opts |-> p2, looked |-> o.isLook]
      /\ run' = NextRun(run, cameraPosition, o, p1, p2, newPos)
      /\ UNCHANGED <<call, loadVars>>

Next ==
  \/ \E p1 \in PosInputs : cameraPos(p1)
  \/ \E p1 \in Targets : rotateCameraTo(p1)
  \/ \E p1 \in OrbitAngles, p2 \in OptionInputs : rotateCamera(p1, p2)

Spec == Init /\ [][Next]_vars

\* the models and the load callback alone
SpecLoad == Init /\ [][LoadNext]_vars

----------------------------------------------------------------------------
(* Calls of the static angle utilities.  The arguments of a call are drawn   *)
(* in the initial state and one of the utilities that takes that many        *)
(* arguments is applied to them.                                             *)

\* single angles: radians on the grid for normalizeRad, degrees for normalizeDeg
AngleInputs == (-MaxTurns * 360) .. (MaxTurns * 360)

\* radians given to minRotationAngle
PairInputs == (-MaxPairTurns * TwoPI) .. (MaxPairTurns * TwoPI)

\* radians given on each axis to _minRotation: 0, +-3/7 rad, +-3.0 rad
AxisInputs == {-21, -3, 0, 3, 21}

AngleInit ==
  /\ call \in
       [fn : {"none"}, ret : {<< >>},
        args : {<<a>> : a \in AngleInputs}
               \cup (PairInputs \X PairInputs)
               \cup (AxisInputs \X AxisInputs \X AxisInputs
                     \X AxisInputs \X AxisInputs \X AxisInputs)]
  /\ CameraInit
  /\ LoadInit

CallNormalizeRad ==
  /\ call.fn = "none" /\ Len(call.args) = 1
  /\ call' = [call EXCEPT !.fn = "normalizeRad", !.ret = <<normalizeRad(call.args[1])>>]
  /\ UNCHANGED <<cameraVars, loadVars>>

CallNormalizeDeg ==
  /\ call.fn = "none" /\ Len(call.args) = 1
  /\ call' = [call EXCEPT !.fn = "normalizeDeg", !.ret = <<normalizeDeg(call.args[1])>>]
  /\ UNCHANGED <<cameraVars, loadVars>>

CallMinRotationAngle ==
  /\ call.fn = "none" /\ Len(call.args) = 2
  /\ call' = [call EXCEPT !.fn = "minRotationAngle",
                          !.ret = <<minRotationAngle(call.args[1], call.args[2])>>]
  /\ UNCHANGED <<cameraVars, loadVars>>

\* _minRotation(startRotation, endRotation): args is startRotation.x, .y, .z,
\* endRotation.x, .y, .z and ret is endRotation.x, .y, .z after the call
CallMinRotation ==
  /\ call.fn = "none" /\ Len(call.args) = 6
  /\ LET a == call.args
         e == minRotation(Vec(a[1], a[2], a[3]), Vec(a[4], a[5], a[6]))
     IN  call' = [call EXCEPT !.fn = "_minRotation", !.ret = <<e.x, e.y, e.z>>]
  /\ UNCHANGED <<cameraVars, loadVars>>

AngleNext ==
  \/ CallNormalizeRad
  \/ CallNormalizeDeg
  \/ CallMinRotationAngle
  \/ CallMinRotation

SpecAngle == AngleInit /\ [][AngleNext]_vars

----------------------------------------------------------------------------
(* Properties of the angle utilities, checked under SpecAngle *)

\* a is congruent to b modulo the full turn
Congruent(a, b, turn) == Rem(a - b, turn) = 0

\* C1: for all start and end, minRotationAngle(start, end) is congruent to end
\* modulo a full turn and is at most a half turn away from start.
C1_MinimalEnd ==
  call.fn = "minRotationAngle" =>
    /\ Congruent(call.ret[1], call.args[2], TwoPI)
    /\ Abs(call.args[1] - call.ret[1]) <= PI

\* the magnitude of r is below one full turn, r has the sign of theta or is
\* zero, and r is congruent to theta modulo the full turn
Reduced(theta, r, turn) ==
  /\ Abs(r) < turn
  /\ (theta >= 0 => r >= 0) /\ (theta <= 0 => r <= 0)
  /\ Congruent(theta, r, turn)

\* C2: an angle whose magnitude is not exactly one full turn is normalized,
\* by normalizeRad and by normalizeDeg, to a value of magnitude below a full
\* turn, of the sign of the angle or zero, and congruent to the angle.
C2_Normalized ==
  /\ (call.fn = "normalizeRad" /\ Abs(call.args[1]) # TwoPI) =>
       Reduced(call.args[1], call.ret[1], TwoPI)
  /\ (call.fn = "normalizeDeg" /\ Abs(call.args[1]) # 360) =>
       Reduced(call.args[1], call.ret[1], 360)

\* normalizeRad has reduced a negative angle of more than a full turn to a
\* negative angle, and not to zero
C2_Witness ==
  /\ call.fn = "normalizeRad"
  /\ call.args[1] < -TwoPI
  /\ call.ret[1] < 0
  /\ call.ret[1] # call.args[1]

\* C3: an angle of exactly one full turn, either way, is returned as it is,
\* and every other multiple of a full turn is reduced to 0.
C3_FullTurn ==
  /\ (call.fn = "normalizeRad" /\ Abs(call.args[1]) = TwoPI) =>
       call.ret[1] = call.args[1]
  /\ (call.fn = "normalizeRad" /\ Congruent(call.args[1], 0, TwoPI)
        /\ Abs(call.args[1]) # TwoPI) => call.ret[1] = 0
  /\ (call.fn = "normalizeDeg" /\ Abs(call.args[1]) = 360) =>
       call.ret[1] = call.args[1]
  /\ (call.fn = "normalizeDeg" /\ Congruent(call.args[1], 0, 360)
        /\ Abs(call.args[1]) # 360) => call.ret[1] = 0

\* normalizeRad has returned minus one full turn for minus one full turn
C3_Witness ==
  /\ call.fn = "normalizeRad"
  /\ call.args[1] = -TwoPI
  /\ call.ret[1] = -TwoPI

\* C7: normalizing the result of a normalization gives that result again,
\* for normalizeRad and for normalizeDeg.
C7_Idempotent ==
  /\ call.fn = "normalizeRad" => normalizeRad(call.ret[1]) = call.ret[1]
  /\ call.fn = "normalizeDeg" => normalizeDeg(call.ret[1]) = call.ret[1]

\* normalizeRad has reduced an angle of more than two full turns
C7_Witness ==
  /\ call.fn = "normalizeRad"
  /\ call.args[1] > 2 * TwoPI
  /\ call.ret[1] # call.args[1]
  /\ call.ret[1] # 0

\* the rule of C8 for one axis
HalfTurnRule(start, end) ==
  IF Abs(start - end) <= PI THEN end
  ELSE IF start > 0 THEN end + TwoPI
  ELSE end - TwoPI

\* C8: minRotationAngle(start, end) is end when |start - end| is at most a
\* half turn, end plus a full turn when it is more and start > 0, and end
\* minus a full turn otherwise; minRotationAngle(3.0, -3.0) is -3.0 plus a
\* full turn; and _minRotation applies the rule to x, y and z, each from that
\* axis's start and end alone.
C8_Rule ==
  /\ call.fn = "minRotationAngle" =>
       call.ret[1] = HalfTurnRule(call.args[1], call.args[2])
  /\ (call.fn = "minRotationAngle" /\ call.args = <<21, -21>>) =>
       call.ret[1] = -21 + TwoPI
  /\ call.fn = "_minRotation" =>
       \A i \in 1..3 : call.ret[i] = HalfTurnRule(call.args[i], call.args[i + 3])

\* minRotationAngle(3.0, -3.0) has been called
C8_Witness ==
  /\ call.fn = "minRotationAngle"
  /\ call.args = <<21, -21>>
  /\ call.ret = <<-21 + TwoPI>>

----------------------------------------------------------------------------
(* Properties of the orbit camera, checked under Spec *)

\* an orbit step has just been taken, the first of its run, by 90 degrees
\* from (0, 0, 5) about the y axis and the target (0, 0, 0)
C4_Case ==
  /\ lastOp.op = "rotateCamera"
  /\ run.len = 1 /\ run.all90
  /\ run.start = Vec(0, 0, 5)
  /\ cameraRotateOptions.target = Vec(0, 0, 0)
  /\ cameraRotateOptions.axe = "y"

\* C4 as stated: with target (0,0,0), axis 'y' and the camera at (0,0,5),
\* rotateCamera(90) leaves the camera at (5, 0, 0).
C4_Original == C4_Case => cameraPosition = Vec(5, 0, 0)

\* C4 as amended: with target (0,0,0), axis 'y' and the camera at (0,0,5),
\* rotateCamera(90) leaves the camera at (-5, 0, 0).
C4_Amended == C4_Case => cameraPosition = Vec(-5, 0, 0)

\* rotateCamera(90) has moved the camera from (0, 0, 5) to (-5, 0, 0)
C4_Witness == C4_Case /\ cameraPosition = Vec(-5, 0, 0)

\* C5: when the axis in force is not 'y', an orbit step leaves the three
\* components of the camera position as they were, whatever the angle and
\* the target.
C5_OtherAxis ==
  [][(lastOp'.op = "rotateCamera" /\ cameraRotateOptions'.axe # "y")
       => cameraPosition' = cameraPosition]_vars

\* an orbit step has been taken about the axis 'x' or 'z', with the camera
\* away from the axis through the target
C5_Witness ==
  /\ lastOp.op = "rotateCamera"
  /\ cameraRotateOptions.axe \in {"x", "z"}
  /\ cameraPosition.x # cameraRotateOptions.target.x
  /\ cameraPosition.z # cameraRotateOptions.target.z

\* C6: the options {target, axe, isLook} are (0,0,0), 'y', true at first;
\* an orbit step sets the fields its options object defines to the values
\* given and leaves every other field, and all of them when it has no options
\* object, as they were; no other camera call changes them.
C6_Options ==
  /\ cameraRotateOptions = [target |-> Vec(0, 0, 0), axe |-> "y", isLook |-> TRUE]
  /\ [][IF lastOp'.op = "rotateCamera"
          THEN LET p2 == lastOp'.opts
               IN  /\ cameraRotateOptions'.target =
                        IF p2.given /\ p2.pos # << >> THEN p2.pos[1]
                        ELSE cameraRotateOptions.target
                   /\ cameraRotateOptions'.axe =
                        IF p2.given /\ p2.axe # << >> THEN p2.axe[1]
                        ELSE cameraRotateOptions.axe
                   /\ cameraRotateOptions'.isLook =
                        IF p2.given /\ p2.isLook # << >> THEN p2.isLook[1]
                        ELSE cameraRotateOptions.isLook
          ELSE cameraRotateOptions' = cameraRotateOptions]_vars

\* an orbit step was given the options {axe: 'x'} alone after the target
\* and the re-aim had been changed by earlier steps, and they are still as
\* those steps left them
C6_Witness ==
  /\ lastOp.op = "rotateCamera"
  /\ lastOp.opts = [given |-> TRUE, pos |-> << >>, axe |-> <<"x">>, isLook |-> << >>]
  /\ cameraRotateOptions = [target |-> Vec(4, 2, 4), axe |-> "x", isLook |-> FALSE]

\* the squared distance of p to the target t in the XZ plane
Dist2(p, t) == (p.x - t.x) * (p.x - t.x) + (p.z - t.z) * (p.z - t.z)

\* C9: through a run of orbit steps about the y axis and one target the Y of
\* the camera and its squared distance to the target in the XZ plane stay
\* what they were before the first step; a step and then the step by the
\* opposite angle, and four steps of 90 degrees, bring the camera back to
\* where it was.
C9_Circle ==
  /\ run.len >= 1 =>
       /\ cameraPosition.y = run.start.y
       /\ Dist2(cameraPosition, cameraRotateOptions.target)
            = Dist2(run.start, cameraRotateOptions.target)
  /\ run.undone => cameraPosition = run.start
  /\ (run.len = 4 /\ run.all90) => cameraPosition = run.start

\* four steps of 90 degrees have been taken about a target the camera is
\* neither on nor level with
C9_Witness ==
  /\ run.len = 4 /\ run.all90
  /\ cameraPosition = run.start
  /\ Dist2(cameraPosition, cameraRotateOptions.target) > 0
  /\ cameraPosition.y # cameraRotateOptions.target.y

\* C10: an orbit step calls lookAt exactly when isLook is true once the
\* options of the call are applied; it then aims at the target from the
\* updated position; when isLook is false the orientation stays as it was.
C10_Reaim ==
  [][lastOp'.op = "rotateCamera" =>
       /\ lastOp'.looked <=> cameraRotateOptions'.isLook
       /\ cameraRotateOptions'.isLook =>
            cameraAim' = LookAt(cameraPosition', cameraRotateOptions'.target)
       /\ ~cameraRotateOptions'.isLook => cameraAim' = cameraAim]_vars

\* an orbit step has moved the camera and aimed it from its new position
C10_Witness ==
  /\ lastOp.op = "rotateCamera" /\ lastOp.looked
  /\ run.len >= 1
  /\ cameraPosition # run.start
  /\ cameraAim = LookAt(cameraPosition, cameraRotateOptions.target)

----------------------------------------------------------------------------
(* Properties of the load callback, checked under SpecLoad *)

\* C11: whenever the load callback is told is_preload_completed = true, every
\* model constructed before the most recent preload() has finished loading
\* (its OBJECT is not null).
C11_PreloadCompleted ==
  (report.called /\ report.is_preload_completed) =>
    \A i \in 1..preloadMark : models[i].OBJECT # "null"

\* C12: in every call of the load callback, countModelLoaded is at most
\* countModel.
C12_LoadedAtMostCreated ==
  report.called => report.countModelLoaded <= report.countModel

====
